---- MODULE Spec2Model ----
(***************************************************************************)
(* salmon: reconciliation of versioned SQL migration files against the     *)
(* history table of a database.  The model follows the latest iteration of *)
(* the engine (Migrate with Opts.Dir / Opts.FS) and its test table.        *)
(***************************************************************************)
EXTENDS Integers, Sequences, FiniteSets, TLC

\* ------------------------------------------------------------------ bounds
\* most migration files in the directory
MaxFiles == 2

\* Migrate is not called again once this many executed statement batches
\* have no record in the configured history table
MaxUnrecorded == 2

\* ------------------------------------------------------- names and content
DefaultTable == "salmon_schema_history"

CustomTable == "custom_history"

TableNames == {DefaultTable, CustomTable}

Procs == {"p1", "p2"}

SqlExt == <<".", "s", "q", "l">>

\* "V<tok>__<desc>.sql" as a sequence of characters
FileName(tok, desc) == <<"V">> \o tok \o <<"_", "_">> \o desc \o SqlExt

Names ==
    { FileName(<<"0">>, <<"a">>), FileName(<<"1">>, <<"a">>),
      FileName(<<"2">>, <<"a">>), FileName(<<"0">>, <<"b">>) }

\* "V0a.sql": a name without the separator
NoSeparator == <<"V", "0", "a">> \o SqlExt

\* "__a.sql": nothing before the separator
NoToken == <<"_", "_", "a">> \o SqlExt

\* names off the pattern: "Vx__a.sql" (no integer), "V-1__a.sql" (a negative
\* integer), "V0a.sql" and "__a.sql"
BadNames ==
    { FileName(<<"x">>, <<"a">>), FileName(<<"-", "1">>, <<"a">>), NoSeparator, NoToken }

\* statement batches: two that execute, one that sqlite rejects
Contents == {"create table users (id);", "alter table users add email;", "alter table users add"}

ValidSQL(content) == content # "alter table users add"

\* ------------------------------------------------------------------ errors
Err(kind, file) == [kind |-> kind, file |-> file]

Nil == Err("nil", <<>>)

DbErr == Err("database error", <<>>)

\* ------------------------------------------------------------ pure helpers
DigitVal ==
    [c \in {"0", "1", "2", "3", "4", "5", "6", "7", "8", "9"} |->
        CASE c = "0" -> 0 [] c = "1" -> 1 [] c = "2" -> 2 [] c = "3" -> 3
          [] c = "4" -> 4 [] c = "5" -> 5 [] c = "6" -> 6 [] c = "7" -> 7
          [] c = "8" -> 8 [] c = "9" -> 9]

RECURSIVE ParseDigits(_, _)
ParseDigits(s, acc) ==
    IF s = <<>> THEN acc ELSE ParseDigits(Tail(s), acc * 10 + DigitVal[Head(s)])

\* strconv.Atoi: optional sign, then at least one decimal digit
Atoi(s) ==
    LET signed == Len(s) > 0 /\ Head(s) \in {"+", "-"}
        body == IF signed THEN Tail(s) ELSE s
        ok == Len(body) > 0 /\ \A i \in 1..Len(body) : body[i] \in DOMAIN DigitVal
        val == IF ok THEN ParseDigits(body, 0) ELSE 0
    IN  [ok |-> ok, val |-> IF signed /\ Head(s) = "-" THEN 0 - val ELSE val]

\* position of the first "__" in s, 0 when there is none
IndexSep(s) ==
    LET I == {i \in 1..(Len(s) - 1) : s[i] = "_" /\ s[i + 1] = "_"}
    IN  IF I = {} THEN 0 ELSE CHOOSE i \in I : \A j \in I : i <= j

parseMigrationFile(filename) ==
    LET k == IndexSep(filename)
        part0 == SubSeq(filename, 1, k - 1)
        part1 == SubSeq(filename, k + 2, Len(filename))
        bad == [err |-> Err("invalid filename format", filename),
                version |-> 0, description |-> <<>>]
    IN  IF k = 0 THEN bad
        ELSE IF Len(part0) = 0
        THEN [err |-> Err("panic: slice bounds out of range", filename),
              version |-> 0, description |-> <<>>]
        ELSE LET a == Atoi(Tail(part0))
             IN  IF ~a.ok THEN bad
                 ELSE [err |-> Nil, version |-> a.val, description |-> part1]

calculateChecksum(content) == <<"sha256", content>>

Migration(version, description, checksum, content) ==
    [version |-> version, description |-> description,
     checksum |-> checksum, content |-> content]

Row(version, description, checksum) ==
    [version |-> version, description |-> description, checksum |-> checksum]

LockRow == Row(-1, <<>>, <<>>)

\* insertion of row r into a sequence sorted by version, after equal versions
RECURSIVE InsertByVersion(_, _)
InsertByVersion(sorted, r) ==
    IF sorted = <<>> THEN <<r>>
    ELSE IF r.version < Head(sorted).version THEN <<r>> \o sorted
    ELSE <<Head(sorted)>> \o InsertByVersion(Tail(sorted), r)

RECURSIVE OrderByVersion(_)
OrderByVersion(rows) ==
    IF rows = <<>> THEN <<>>
    ELSE InsertByVersion(OrderByVersion(SubSeq(rows, 1, Len(rows) - 1)), rows[Len(rows)])

IsAppliedRow(r) == r.version > -1

IsLockRow(r) == r.version = -1

\* a select without the where clause
getAllRows(rows) == OrderByVersion(rows)

\* SELECT ... FROM tableName where version > -1 order by version
getAppliedMigrations(rows) == OrderByVersion(SelectSeq(rows, IsAppliedRow))

\* ------------------------------------------- Migrate: the discovery loop
\* a loop that takes every version at every position
AnyVersion(version, i) == TRUE

\* version != int64(i) rejects the file
VersionMatchesIndex(version, i) == version = i

\* i < len(appliedMigrations): the file is compared, not applied
AlreadyApplied(i, applied) == i < Len(applied)

ChecksumMatches(recorded, checksum) == recorded = checksum

\* for i, file := range files { ... }; i counts from 0
RECURSIVE ScanFiles(_, _, _, _)
ScanFiles(files, applied, i, acc) ==
    IF i >= Len(files) THEN [err |-> Nil, toApply |-> acc]
    ELSE LET file == files[i + 1]
             parsed == parseMigrationFile(file.name)
             checksum == calculateChecksum(file.content)
         IN  IF parsed.err # Nil THEN [err |-> parsed.err, toApply |-> <<>>]
             ELSE IF ~VersionMatchesIndex(parsed.version, i)
             THEN [err |-> Err("incorrect version number", file.name), toApply |-> <<>>]
             ELSE IF AlreadyApplied(i, applied)
             THEN IF ~ChecksumMatches(applied[i + 1].checksum, checksum)
                  THEN [err |-> Err("checksum does not match expected value", file.name),
                        toApply |-> <<>>]
                  ELSE ScanFiles(files, applied, i + 1, acc)
             ELSE ScanFiles(files, applied, i + 1,
                            Append(acc, Migration(parsed.version, parsed.description,
                                                  checksum, file.content)))

\* a Migrate that does not look for the directory
StatAlwaysOk(exists) == Nil

\* fs.Stat(opts.FS, opts.Dir) and errors.Is(err, fs.ErrNotExist)
StatDir(exists) == IF exists THEN Nil ELSE Err("directory does not exist", <<>>)

\* ------------------------------------------------------- database effects
ApplyFaults == {"none", "begin", "query", "insert", "exec", "commit"}

HasVersion(rows, version) == \E k \in 1..Len(rows) : rows[k].version = version

\* a transaction that keeps the inserted record when the statements fail
applyMigrationNoRollback(database, done, migration, tablename, fault) ==
    LET same(e, tx) == [err |-> e, db |-> database, executed |-> done, tx |-> tx]
        row == Row(migration.version, migration.description, migration.checksum)
        inserted == [database EXCEPT ![DefaultTable].rows = Append(@, row)]
    IN  IF fault = "begin" THEN same(DbErr, "none")
        ELSE IF fault = "query" THEN same(DbErr, "rolledback")
        ELSE IF HasVersion(database[tablename].rows, migration.version)
        THEN same(Nil, "open")
        ELSE IF fault = "insert" \/ ~database[DefaultTable].exists
        THEN same(DbErr, "rolledback")
        ELSE IF fault = "exec" THEN same(DbErr, "rolledback")
        ELSE IF ~ValidSQL(migration.content)
        THEN [err |-> Err("incomplete input", <<>>), db |-> inserted,
              executed |-> done, tx |-> "committed"]
        ELSE IF fault = "commit" THEN same(DbErr, "rolledback")
        ELSE [err |-> Nil, db |-> inserted,
              executed |-> Append(done, migration.version), tx |-> "committed"]

\* one transaction: exists-check on tablename, insert into the history
\* table named in the statement text, then the migration's statements
applyMigration(database, done, migration, tablename, fault) ==
    LET same(e, tx) == [err |-> e, db |-> database, executed |-> done, tx |-> tx]
        row == Row(migration.version, migration.description, migration.checksum)
    IN  IF fault = "begin" THEN same(DbErr, "none")
        ELSE IF fault = "query" THEN same(DbErr, "rolledback")
        ELSE IF HasVersion(database[tablename].rows, migration.version)
        THEN same(Nil, "open")
        ELSE IF fault = "insert" \/ ~database[DefaultTable].exists
        THEN same(DbErr, "rolledback")
        ELSE IF fault = "exec" THEN same(DbErr, "rolledback")
        ELSE IF ~ValidSQL(migration.content)
        THEN same(Err("incomplete input", <<>>), "rolledback")
        ELSE IF fault = "commit" THEN same(DbErr, "rolledback")
        ELSE [err |-> Nil,
              db |-> [database EXCEPT ![DefaultTable].rows = Append(@, row)],
              executed |-> Append(done, migration.version),
              tx |-> "committed"]

\* a release that returns the error of the run and says nothing of the delete
releaseLockSilent(database, tablename, err, fault) ==
    LET NotLock(r) == ~IsLockRow(r)
    IN  [err |-> err,
         db |-> IF fault = "none"
                THEN [database EXCEPT ![tablename].rows = SelectSeq(@, NotLock)]
                ELSE database]

\* a release that empties the table
releaseLockAllRows(database, tablename, err, fault) ==
    IF fault = "none"
    THEN [err |-> err, db |-> [database EXCEPT ![tablename].rows = <<>>]]
    ELSE [err |-> Err("ATTENTION: could not release lock", err.kind), db |-> database]

\* delete from tableName where version = -1; err is the error of the run.
\* The error of a failed delete carries the error of the run in its text
\* ("from: ..."), here in the field file.
releaseLock(database, tablename, err, fault) ==
    LET NotLock(r) == ~IsLockRow(r)
    IN  IF fault = "none"
        THEN [err |-> err,
              db |-> [database EXCEPT ![tablename].rows = SelectSeq(@, NotLock)]]
        ELSE [err |-> Err("ATTENTION: could not release lock", err.kind), db |-> database]

\* a loop that goes on to the next migration after a failure
NeverAbort(err) == FALSE

\* the first failure ends the loop over migrationsToApply
AbortOnError(err) == err # Nil

\* ------------------------------------------------------------------- state
VARIABLES
    opts,      \* the Opts of the host: TableName
    db,        \* table name -> [exists, rows]: the history tables of the database
    executed,  \* versions whose statement batch was committed, in order
    openTx,    \* transactions begun and neither committed nor rolled back
    dir,       \* the migration files, in the order the filesystem lists them
    dirExists, \* whether the directory opts.Dir is there
    run        \* per caller: the position and locals of its Migrate call

vars == <<opts, db, executed, openTx, dir, dirExists, run>>

\* what the host knows of its previous call: whether it scanned the
\* directory without a database failure, whether it returned nil, and the
\* version whose application failed (-1: none)
NoPrev == [valid |-> FALSE, ok |-> FALSE, failedAt |-> -1]

\* the files written since the caller's previous call scanned the directory
Unchanged == [kind |-> "none", name |-> <<>>]

IdleRun ==
    [pc |-> "idle", entered |-> FALSE, scanned |-> FALSE, faulted |-> FALSE,
     appliedMigrations |-> <<>>, migrationsToApply |-> <<>>, result |-> Nil,
     attempted |-> <<>>, release |-> "none",
     db0 |-> <<>>, executed0 |-> <<>>, openTx0 |-> 0,
     prev |-> NoPrev, changed |-> Unchanged]

Table(exists, rows) == [exists |-> exists, rows |-> rows]

\* the databases a run can start from.  Default options: the history table
\* absent, empty, or holding a lock row left behind.  A custom table name:
\* that table absent, and the default table absent or present.
InitDbs(tn) ==
    IF tn = DefaultTable
    THEN {[t \in TableNames |-> IF t = tn THEN h ELSE Table(FALSE, <<>>)] :
             h \in {Table(FALSE, <<>>), Table(TRUE, <<>>), Table(TRUE, <<LockRow>>)}}
    ELSE {[t \in TableNames |-> IF t = tn THEN Table(FALSE, <<>>) ELSE h] :
             h \in {Table(FALSE, <<>>), Table(TRUE, <<>>)}}

Init ==
    /\ opts \in [TableName : TableNames]
    /\ db \in InitDbs(opts.TableName)
    /\ executed = <<>>
    /\ openTx = 0
    /\ dir = <<>>
    /\ dirExists = FALSE
    /\ run = [p \in Procs |-> IdleRun]

Quiet == \A p \in Procs : run[p].pc = "idle"

Finish(r, err) == [r EXCEPT !.pc = "done", !.result = err]

Faulted(r, fault) == [r EXCEPT !.faulted = @ \/ fault # "none"]

Last(s) == s[Len(s)]

\* the version at which the finished run r stopped applying, -1 when none
FailedAt(r) ==
    IF ~r.faulted /\ r.attempted # <<>> /\ Last(r.attempted).err # Nil
    THEN Last(r.attempted).version
    ELSE -1

\* executed statement batches without a record in the configured table
Unrecorded == Len(executed) - Len(SelectSeq(db[opts.TableName].rows, IsAppliedRow))

\* ------------------------------------------------------------ environment
InsertAt(s, k, x) == SubSeq(s, 1, k - 1) \o <<x>> \o SubSeq(s, k, Len(s))

DirNames == {dir[k].name : k \in 1..Len(dir)}

\* the record of a write to file name after changes c
Touch(c, name, added) ==
    IF ~added /\ (c.kind = "none" \/ (c.kind = "one" /\ c.name = name))
    THEN [kind |-> "one", name |-> name]
    ELSE [kind |-> "many", name |-> <<>>]

\* only a caller that has scanned the directory before has changes to note
Written(name, added) ==
    [p \in Procs |->
        IF run[p].prev.valid
        THEN [run[p] EXCEPT !.changed = Touch(@, name, added)]
        ELSE run[p]]

\* the whole directory was written anew
Rewritten ==
    [p \in Procs |->
        IF run[p].prev.valid
        THEN [run[p] EXCEPT !.changed = [kind |-> "many", name |-> <<>>]]
        ELSE run[p]]

\* os.MkdirTemp: the directory is there, empty
MakeDir ==
    /\ Quiet
    /\ ~dirExists
    /\ dirExists' = TRUE
    /\ UNCHANGED <<opts, db, executed, openTx, dir, run>>

\* os.RemoveAll(dir)
RemoveDir ==
    /\ Quiet
    /\ dirExists
    /\ dirExists' = FALSE
    /\ dir' = <<>>
    /\ run' = Rewritten
    /\ UNCHANGED <<opts, db, executed, openTx>>

\* os.WriteFile of a new file named from names; the filesystem lists it at
\* position k
WriteNew(names) ==
    /\ Quiet
    /\ dirExists
    /\ Len(dir) < MaxFiles
    /\ \E name \in names \ DirNames, content \in Contents, k \in 1..(Len(dir) + 1) :
          /\ dir' = InsertAt(dir, k, [name |-> name, content |-> content])
          /\ run' = Written(name, TRUE)
    /\ UNCHANGED <<opts, db, executed, openTx, dirExists>>

\* a new migration file with a well-formed name
AddFile == WriteNew(Names)

\* a new file whose name may be off the pattern
AddAnyFile == WriteNew(Names \cup BadNames)

\* os.WriteFile over an existing migration file
EditFile ==
    /\ Quiet
    /\ \E k \in 1..Len(dir) :
          \E content \in Contents \ {dir[k].content} :
             /\ dir' = [dir EXCEPT ![k].content = content]
             /\ run' = Written(dir[k].name, FALSE)
    /\ UNCHANGED <<opts, db, executed, openTx, dirExists>>

\* ------------------------------------------------------------------ Migrate
\* entry and the schema transaction: create table if not exists
Call(p) ==
    /\ run[p].pc = "idle"
    /\ Unrecorded < MaxUnrecorded
    /\ \E fault \in {"none", "schema"} :
          LET tn == opts.TableName
              fresh == [run[p] EXCEPT !.db0 = db, !.executed0 = executed,
                                      !.openTx0 = openTx,
                                      !.faulted = fault # "none"]
          IN  IF fault = "none"
              THEN /\ db' = [db EXCEPT ![tn].exists = TRUE]
                   /\ run' = [run EXCEPT ![p] =
                                [fresh EXCEPT !.pc = "load", !.entered = TRUE]]
              ELSE /\ db' = db
                   /\ run' = [run EXCEPT ![p] = Finish(fresh, DbErr)]
    /\ UNCHANGED <<opts, executed, openTx, dir, dirExists>>

\* appliedMigrations, err := getAppliedMigrations(db, opts.TableName)
Load(p) ==
    /\ run[p].pc = "load"
    /\ \E fault \in {"none", "query"} :
          run' = [run EXCEPT ![p] =
                IF fault = "none"
                THEN [run[p] EXCEPT
                        !.pc = "scan",
                        !.appliedMigrations =
                            getAppliedMigrations(db[opts.TableName].rows)]
                ELSE Finish(Faulted(run[p], fault), DbErr)]
    /\ UNCHANGED <<opts, db, executed, openTx, dir, dirExists>>

\* fs.Stat, fs.Glob and the loop over files, up to the empty-pending return
Discover(p) ==
    /\ run[p].pc = "scan"
    /\ LET stat == StatDir(dirExists)
           s == ScanFiles(dir, run[p].appliedMigrations, 0, <<>>)
           r == [run[p] EXCEPT !.scanned = TRUE]
       IN  run' = [run EXCEPT ![p] =
                IF stat # Nil THEN Finish(r, stat)
                ELSE IF s.err # Nil THEN Finish(r, s.err)
                ELSE IF Len(s.toApply) = 0 THEN Finish(r, Nil)
                ELSE [r EXCEPT !.pc = "apply", !.migrationsToApply = s.toApply]]
    /\ UNCHANGED <<opts, db, executed, openTx, dir, dirExists>>

\* one iteration of the loop over migrationsToApply
Apply(p) ==
    /\ run[p].pc = "apply"
    /\ \E fault \in ApplyFaults :
          LET r == run[p]
              m == Head(r.migrationsToApply)
              a == applyMigration(db, executed, m, opts.TableName, fault)
              rest == Tail(r.migrationsToApply)
              tried == [Faulted(r, fault) EXCEPT
                          !.attempted = Append(@, [version |-> m.version, err |-> a.err]),
                          !.migrationsToApply = rest]
          IN  /\ db' = a.db
              /\ executed' = a.executed
              /\ openTx' = IF a.tx = "open" THEN openTx + 1 ELSE openTx
              /\ run' = [run EXCEPT ![p] =
                    IF AbortOnError(a.err) THEN Finish(tried, a.err)
                    ELSE IF rest = <<>> THEN [tried EXCEPT !.pc = "release"]
                    ELSE tried]
    /\ UNCHANGED <<opts, dir, dirExists>>

\* return releaseLock(ctx, db, opts.TableName, nil)
Release(p) ==
    /\ run[p].pc = "release"
    /\ \E fault \in {"none", "delete"} :
          LET l == releaseLock(db, opts.TableName, Nil, fault)
          IN  /\ db' = l.db
              /\ run' = [run EXCEPT ![p] =
                    Finish([Faulted(run[p], fault) EXCEPT
                               !.release = IF fault = "none" THEN "ok" ELSE "failed"],
                           l.err)]
    /\ UNCHANGED <<opts, executed, openTx, dir, dirExists>>

\* the host has the error of Migrate and goes on
Return(p) ==
    /\ run[p].pc = "done"
    /\ LET r == run[p]
       IN  run' = [run EXCEPT ![p] =
                [IdleRun EXCEPT
                    !.prev = IF r.scanned /\ ~r.faulted
                             THEN [valid |-> TRUE, ok |-> r.result = Nil,
                                   failedAt |-> FailedAt(r)]
                             ELSE NoPrev]]
    /\ UNCHANGED <<opts, db, executed, openTx, dir, dirExists>>

\* a single caller: Migrate runs to completion before it is called again
Caller == "p1"

Next ==
    \/ MakeDir
    \/ AddFile
    \/ EditFile
    \/ Call(Caller)
    \/ Load(Caller)
    \/ Discover(Caller)
    \/ Apply(Caller)
    \/ Release(Caller)
    \/ Return(Caller)

Spec == Init /\ [][Next]_vars

\* the default options
InitDefault == Init /\ opts.TableName = DefaultTable

\* a directory that receives files with names off the pattern
NextFiles ==
    \/ MakeDir
    \/ AddAnyFile
    \/ Call(Caller)
    \/ Load(Caller)
    \/ Discover(Caller)
    \/ Apply(Caller)
    \/ Release(Caller)
    \/ Return(Caller)

SpecFiles == InitDefault /\ [][NextFiles]_vars

\* a directory that is removed and made anew between the calls
NextDir ==
    \/ MakeDir
    \/ RemoveDir
    \/ AddFile
    \/ Call(Caller)
    \/ Load(Caller)
    \/ Discover(Caller)
    \/ Apply(Caller)
    \/ Release(Caller)
    \/ Return(Caller)

SpecDir == InitDefault /\ [][NextDir]_vars

\* two hosts call Migrate on the same database and directory; their steps
\* interleave.  Each statement and each transaction of database/sql on
\* sqlite takes effect at once: a transaction that cannot is a failed one.
NextConcurrent ==
    \/ MakeDir
    \/ AddFile
    \/ \E p \in Procs :
          \/ Call(p)
          \/ Load(p)
          \/ Discover(p)
          \/ Apply(p)
          \/ Release(p)
          \/ Return(p)

SpecConcurrent == Init /\ [][NextConcurrent]_vars

\* ------------------------------------------------------ terms of the claims
R == run[Caller]

Done == R.pc = "done"

\* the run ended without a failure of the database itself
Sound == Done /\ ~R.faulted

History(database) == SelectSeq(database[opts.TableName].rows, IsAppliedRow)

AllRows(database) == database[DefaultTable].rows \o database[CustomTable].rows

VersionsOf(rows) == {rows[k].version : k \in {j \in 1..Len(rows) : rows[j].version > -1}}

CountVersion(rows, v) == Cardinality({k \in 1..Len(rows) : rows[k].version = v})

LockRows(database) == SelectSeq(database[opts.TableName].rows, IsLockRow)

FileVersion(k) == parseMigrationFile(dir[k].name).version

ValidNames == \A k \in 1..Len(dir) : parseMigrationFile(dir[k].name).err = Nil

\* the versions of the files, ascending
RECURSIVE InsertAscending(_, _)
InsertAscending(sorted, v) ==
    IF sorted = <<>> THEN <<v>>
    ELSE IF v < Head(sorted) THEN <<v>> \o sorted
    ELSE <<Head(sorted)>> \o InsertAscending(Tail(sorted), v)

RECURSIVE SortedVersions(_)
SortedVersions(n) ==
    IF n = 0 THEN <<>> ELSE InsertAscending(SortedVersions(n - 1), FileVersion(n))

\* the files are exactly versions 0..N-1
Contiguous ==
    /\ ValidNames
    /\ \A i \in 1..Len(dir) : SortedVersions(Len(dir))[i] = i - 1

AllValidSQL == \A k \in 1..Len(dir) : ValidSQL(dir[k].content)

\* the first index (from 0) at which the sorted versions leave 0,1,2,...
FirstDivergence ==
    LET sorted == SortedVersions(Len(dir))
        i == CHOOSE i \in 1..Len(dir) :
                /\ sorted[i] # i - 1
                /\ \A j \in 1..(i - 1) : sorted[j] = j - 1
    IN  [expected |-> i - 1, actual |-> sorted[i]]

Records(database, t) == SelectSeq(database[t].rows, IsAppliedRow)

\* the run has executed no statement batch and the records are as at its call
NothingApplied ==
    /\ executed = R.executed0
    /\ \A t \in TableNames : Records(db, t) = Records(R.db0, t)

\* --------------------------------------------------------------------- C1
\* C1: with the default options, an initially empty history and N >= 1 files
\* whose versions are exactly 0..N-1 and whose statements succeed, the run
\* returns nil and the history holds exactly the versions 0..N-1, whatever
\* the order in which the files are listed.
C1_AllVersionsApplied ==
    (/\ Sound
     /\ opts.TableName = DefaultTable
     /\ History(R.db0) = <<>>
     /\ Len(dir) >= 1
     /\ Contiguous
     /\ AllValidSQL)
    => (/\ R.result = Nil
        /\ VersionsOf(History(db)) = 0..(Len(dir) - 1))

\* --------------------------------------------------------------------- C2
\* C2: records are committed in ascending version order: a record of
\* version v is in a table only after records of all versions below v, the
\* versions recorded in a table are always 0..k-1 for some k, and the
\* versions a run attempts are strictly ascending.
AscendingRecords(rows) ==
    \A k \in 1..Len(rows) :
        rows[k].version > -1 =>
            \A u \in 0..(rows[k].version - 1) :
                \E j \in 1..(k - 1) : rows[j].version = u

C3_InvalidSequenceReported ==
    (/\ Sound
     /\ R.scanned
     /\ ValidNames
     /\ ~Contiguous)
    => (/\ R.result.kind = "incorrect version number"
        /\ parseMigrationFile(R.result.file).version = FirstDivergence.actual
        /\ NothingApplied)

\* --------------------------------------------------------------------- C4
\* the file at position k has a record whose checksum is not the file's
Drifted(k) ==
    \E j \in 1..Len(History(R.db0)) :
        /\ History(R.db0)[j].version = FileVersion(k)
        /\ History(R.db0)[j].checksum # calculateChecksum(dir[k].content)

\* C4: when the files are versions 0..N-1 and a recorded version's file has
\* another checksum than its record, the run fails with the checksum error
\* naming such a file, and nothing is applied.
C4_ChecksumMismatchReported ==
    (/\ Sound
     /\ R.scanned
     /\ Contiguous
     /\ \E k \in 1..Len(dir) : Drifted(k))
    => (/\ R.result.kind = "checksum does not match expected value"
        /\ \E k \in 1..Len(dir) : Drifted(k) /\ dir[k].name = R.result.file
        /\ NothingApplied)

\* --------------------------------------------------------------------- C5
\* C5: a run that follows a run that returned nil, with no file written in
\* between, returns nil, adds no record and executes no statement batch.
C5_RerunIsNoOp ==
    (/\ Sound
     /\ R.scanned
     /\ R.prev.valid
     /\ R.prev.ok
     /\ R.changed.kind = "none")
    => (/\ R.result = Nil
        /\ NothingApplied)

\* --------------------------------------------------------------------- C6
Occurrences(s, v) == Cardinality({k \in 1..Len(s) : s[k] = v})

\* C6: a version has as many records as its statement batch has taken
\* effect: the insert and the statements commit together or not at all.
C6_RecordIffExecuted ==
    \A v \in VersionsOf(AllRows(db)) \cup {executed[k] : k \in 1..Len(executed)} :
        CountVersion(AllRows(db), v) = Occurrences(executed, v)

\* a run in which one migration committed and the next one was rolled back
C6_Witness ==
    /\ Done
    /\ Len(R.attempted) = 2
    /\ R.attempted[1].err = Nil
    /\ R.attempted[2].err = Err("incomplete input", <<>>)
    /\ VersionsOf(AllRows(db)) = {0}
    /\ executed = <<0>>

\* --------------------------------------------------------------------- C7
\* C7: a failed application is the last attempt of its run: the run has
\* returned that error, no higher version was attempted, the versions
\* attempted before it are recorded, and no record of the failed version
\* was added.
C7_FirstFailureAborts ==
    \A i \in 1..Len(R.attempted) :
        R.attempted[i].err # Nil =>
            LET k == R.attempted[i].version
            IN  /\ i = Len(R.attempted)
                /\ Done
                /\ R.result = R.attempted[i].err
                /\ \A j \in 1..(i - 1) :
                      /\ R.attempted[j].version < k
                      /\ HasVersion(AllRows(db), R.attempted[j].version)
                /\ \A j \in 1..Len(R.migrationsToApply) :
                      R.migrationsToApply[j].version > k
                /\ ~HasVersion(History(db), k)
                /\ CountVersion(AllRows(db), k) = CountVersion(AllRows(R.db0), k)

\* version 0 committed, version 1 failed, in one run
C7_Witness ==
    /\ Done
    /\ Len(R.attempted) = 2
    /\ R.attempted[1] = [version |-> 0, err |-> Nil]
    /\ R.attempted[2].version = 1
    /\ R.attempted[2].err # Nil
    /\ VersionsOf(History(db)) = {0}

\* --------------------------------------------------------------------- C8
\* the versions k..n-1 in order
RECURSIVE FromTo(_, _)
FromTo(k, n) == IF k >= n THEN <<>> ELSE <<k>> \o FromTo(k + 1, n)

\* C8: after a run that failed while applying version k, with only the file
\* of version k rewritten and every file's statements now succeeding, the
\* next run returns nil, executes exactly the versions k..N-1 and leaves the
\* history with the versions 0..N-1.
C8_ResumeAfterFix ==
    (/\ Sound
     /\ R.scanned
     /\ R.prev.valid
     /\ R.prev.failedAt >= 0
     /\ R.changed.kind = "one"
     /\ parseMigrationFile(R.changed.name).version = R.prev.failedAt
     /\ AllValidSQL)
    => (/\ R.result = Nil
        /\ executed = R.executed0 \o FromTo(R.prev.failedAt, Len(dir))
        /\ VersionsOf(History(db)) = 0..(Len(dir) - 1))

\* --------------------------------------------------------------------- C9
\* C9: a run that starts while the history table holds a lock row returns
\* the lock-held error, applies nothing and leaves exactly one lock row.
C9_LockAlreadyHeld ==
    (/\ Sound
     /\ LockRows(R.db0) # <<>>)
    => (/\ R.result.kind = "lock already held"
        /\ NothingApplied
        /\ Len(LockRows(db)) = 1)

\* -------------------------------------------------------------------- C10
\* C10: a run that got past the schema step and met no database failure
\* (so the delete itself did not fail) has deleted the lock row when it
\* returns, on every path.
C10_LockReleased ==
    (/\ Sound
     /\ R.entered)
    => LockRows(db) = <<>>

\* -------------------------------------------------------------------- C13
\* the version token of a name: what stands between "V" and the first "__"
Token(name) == SubSeq(name, 2, IndexSep(name) - 1)

NonNegativeInteger(tok) ==
    /\ Len(tok) > 0
    /\ \A i \in 1..Len(tok) : tok[i] \in DOMAIN DigitVal

\* no separator, or a version token that is not a non-negative integer
OffPattern(name) == IndexSep(name) = 0 \/ ~NonNegativeInteger(Token(name))

\* C13: when a file of the directory has a name without the separator or
\* with a version token that is not a non-negative integer, the run fails
\* with the invalid-filename error naming such a file, wherever the file is
\* listed, and nothing is applied.
C13_InvalidFilenameReported ==
    (/\ Sound
     /\ R.scanned
     /\ dirExists
     /\ \E k \in 1..Len(dir) : OffPattern(dir[k].name))
    => (/\ R.result.kind = "invalid filename format"
        /\ OffPattern(R.result.file)
        /\ NothingApplied)

\* -------------------------------------------------------------------- C14
\* C14: when the directory does not exist, the run fails with the
\* directory-not-found error, executes no statement batch and leaves the
\* records as they were.
C14_DirectoryNotFound ==
    (/\ Sound
     /\ R.scanned
     /\ ~dirExists)
    => (/\ R.result.kind = "directory does not exist"
        /\ NothingApplied)

\* a run on a removed directory, against a history that holds records
C14_Witness ==
    /\ Sound
    /\ R.scanned
    /\ ~dirExists
    /\ R.result.kind = "directory does not exist"
    /\ History(db) # <<>>
    /\ History(db) = History(R.db0)

\* -------------------------------------------------------------------- C15
\* the errors a run can have when it comes to release the lock
RunErrors == {Nil, DbErr, Err("incomplete input", <<>>)}

LockStuck(e) == e.kind = "ATTENTION: could not release lock"

\* error e tells of the error of the run err (of none when err is nil)
Describes(e, err) == e.file = err.kind

IsPrefix(s, t) == Len(s) <= Len(t) /\ SubSeq(t, 1, Len(s)) = s

\* C16: no step removes or changes a record of version >= 0: in every
\* table the records of a state are the first records of the next state,
\* so a step that removes rows (the release of the lock) removes only
\* rows of version -1.
C16_RecordsOnlyGrow ==
    [][\A t \in TableNames : IsPrefix(Records(db, t), Records(db', t))]_vars

\* a run that started with records and a lock row, and deleted the lock row
C16_Witness ==
    /\ Done
    /\ R.release = "ok"
    /\ History(R.db0) # <<>>
    /\ LockRows(R.db0) # <<>>
    /\ LockRows(db) = <<>>
    /\ IsPrefix(History(R.db0), History(db))
    /\ Len(History(db)) > Len(History(R.db0))

\* -------------------------------------------------------------------- C17
\* C17: a run holds the lock from before it loads the applied records
\* until it has released it: while the run has loaded the records and has
\* not returned, so at every commit of a record, a lock row is in the
\* history table.
C17_LockHeldWhileRunning ==
    R.pc \in {"scan", "apply", "release"} => LockRows(db) # <<>>

\* -------------------------------------------------------------------- C18
\* C18: whatever the configured table name, every version a run has applied
\* without error has its record in the configured table, the one the load
\* and the existence check read.
C18_RecordsInConfiguredTable ==
    \A i \in 1..Len(R.attempted) :
        R.attempted[i].err = Nil => HasVersion(History(db), R.attempted[i].version)

\* -------------------------------------------------------------------- C19
\* C19: the applied records a run has loaded hold no row of version -1 and
\* are in ascending order; they are the records of the table, lock row or
\* not, so the record at position i is the record of version i, and no
\* pending migration has a loaded record.
C19_LoadExcludesLock ==
    LET a == R.appliedMigrations
    IN  /\ \A k \in 1..Len(a) : a[k].version > -1
        /\ \A i, j \in 1..Len(a) : i < j => a[i].version <= a[j].version
        /\ R.pc = "scan" => a = History(db)
        /\ \A k \in 1..Len(a) : a[k].version = k - 1
        /\ \A k \in 1..Len(R.migrationsToApply) :
              /\ ~HasVersion(a, R.migrationsToApply[k].version)
              /\ R.migrationsToApply[k].version >= Len(a)

\* records loaded from a table that also holds a lock row
C19_Witness ==
    /\ R.pc = "scan"
    /\ LockRows(db) # <<>>
    /\ R.appliedMigrations # <<>>
    /\ Len(R.appliedMigrations) < Len(db[opts.TableName].rows)

\* -------------------------------------------------------------------- C11
\* run p is in the loop over its pending migrations
Applying(p) == run[p].pc = "apply"

\* C11: two runs are never both applying migrations.
C11_OneRunApplies ==
    \A p, q \in Procs : (Applying(p) /\ Applying(q)) => p = q

\* -------------------------------------------------------------------- C12
\* C12: whatever the interleaving of the runs, a version has at most one
\* record and its statement batch is executed at most once.
C12_AtMostOnce ==
    \A v \in VersionsOf(AllRows(db)) \cup {executed[k] : k \in 1..Len(executed)} :
        /\ CountVersion(AllRows(db), v) <= 1
        /\ Occurrences(executed, v) <= 1

\* -------------------------------------------------------------------- C20
\* C20: when no call is in progress, no transaction is open: every
\* transaction a call began was committed or rolled back before it returned.
C20_NoOpenTransaction ==
    (\A p \in Procs : run[p].pc \in {"idle", "done"}) => openTx = 0

\* -------------------------------------------------------------------- C21
\* the errors Migrate returns to its caller, nil among them
Returned ==
    {"nil", "database error", "incomplete input", "directory does not exist",
     "invalid filename format", "incorrect version number",
     "checksum does not match expected value", "ATTENTION: could not release lock"}

\* C21: a call that has ended has returned nil, an error of the run or the
\* lock-stuck error, and a run attempts each pending version at most once:
\* no version is attempted twice, no attempted version is still pending,
\* and nothing is attempted after a failed attempt.
C21_EndsInOutcome ==
    /\ Done => R.result.kind \in Returned
    /\ \A i, j \in 1..Len(R.attempted) :
          i # j => R.attempted[i].version # R.attempted[j].version
    /\ \A i \in 1..Len(R.attempted), k \in 1..Len(R.migrationsToApply) :
          R.attempted[i].version # R.migrationsToApply[k].version
    /\ \A i \in 1..(Len(R.attempted) - 1) : R.attempted[i].err = Nil

====
